---- MODULE Spec2Model ----
(***************************************************************************)
(* State-machine model of clothing_crawler.py: module-level store setup,   *)
(* crawl_categories, crawl_products and extract_product_metadata, with the *)
(* SQLite tables, the per-item JSON documents and the image files as       *)
(* persistent state that survives from one process run to the next.        *)
(*                                                                         *)
(* Text is a tuple of one-character tokens, so that strip(), lower() and   *)
(* re.sub() are computed character by character.                           *)
(***************************************************************************)
EXTENDS Integers, Sequences, FiniteSets

---------------------------------------------------------------------------
(* Bounds of the environment the crawler is run against. *)

\* most product cards one scan of the listing page returns
MaxCards == 2
\* most gallery image tags on one detail page
MaxImages == 3
\* most process runs over the same store and asset folder
MaxRuns == 2

\* largest products_per_subcategory a config file sets
MaxCap == 2
\* longest text handed to sanitize_filename on its own
MaxLen == 3
\* ASSETS_FOLDER
ASSETS_FOLDER == "assets"

---------------------------------------------------------------------------
(* Text helpers *)

\* Python's None, comparable with any text
None == <<"None">>

IsSpace(c) == c \in {" ", "\n"}

RECURSIVE LStrip(_)
LStrip(s) == IF s # <<>> /\ IsSpace(Head(s)) THEN LStrip(Tail(s)) ELSE s

RECURSIVE RStrip(_)
RStrip(s) ==
    IF s # <<>> /\ IsSpace(s[Len(s)]) THEN RStrip(SubSeq(s, 1, Len(s) - 1)) ELSE s

\* str.strip()
Strip(s) == RStrip(LStrip(s))

LowerChar(c) ==
    CASE c = "Y" -> "y"
      [] c = "E" -> "e"
      [] c = "S" -> "s"
      [] c = "N" -> "n"
      [] c = "O" -> "o"
      [] OTHER -> c

\* str.lower()
Lower(s) == [i \in DOMAIN s |-> LowerChar(s[i])]

\* characters matched by \w: letters, digits, underscore ("keheh" and "alef"
\* stand for the Persian letters U+06A9 and U+0627, which are word characters)
WordChars == {"a", "b", "M", "S", "W", "1", "_", "keheh", "alef"}
\* characters of the range U+0600..U+06FF ("arcomma" stands for U+060C, the
\* Arabic comma, which is in the range and is no word character)
ArabicRange == {"keheh", "alef", "arcomma"}

\* the character class [\w\-\_U+0600..U+06FF and space] that sanitize_filename keeps
Allowed(c) == c \in WordChars \cup {"-", "_", " "} \cup ArabicRange

SanitizeFirstOnly(name) ==
    [i \in DOMAIN name |->
        IF ~Allowed(name[i]) /\ \A j \in 1..(i - 1) : Allowed(name[j])
        THEN "_" ELSE name[i]]

\* re.sub(r'[^...]', '_', name): every character outside the class becomes '_'
sanitize_filename(name) ==
    [i \in DOMAIN name |-> IF Allowed(name[i]) THEN name[i] ELSE "_"]

---------------------------------------------------------------------------
(* Paths *)

product_folder(main, sub, nested, pid) ==
    <<ASSETS_FOLDER, sanitize_filename(main), sanitize_filename(sub),
      sanitize_filename(nested), pid>>

\* os.path.join(product_folder, f"{product_id}.json")
JsonPath(main, sub, nested, pid) ==
    Append(product_folder(main, sub, nested, pid), <<pid, ".json">>)

Digits == <<"1", "2", "3", "4", "5", "6", "7", "8", "9">>

\* f"{product_id}_image_{idx + 1}.jpg", with idx the 0-based enumerate() index
ImageFilename(pid, idx) == <<pid, "_image_", Digits[idx + 1], ".jpg">>

\* the file_path save_image builds and returns
ImagePath(folder, filename) == Append(folder, filename)

---------------------------------------------------------------------------
(* extract_product_metadata: the pure part *)

\* "No Title Found"
NoTitle == <<"No Title Found">>

\* tag.text.strip() if tag else None
TextOrNone(tag) == IF tag = None THEN None ELSE Strip(tag)

TitleOrNone(tag) == IF tag = None THEN None ELSE Strip(tag)

\* subtitle.text.strip() if subtitle else "No Title Found"
ProductTitle(tag) == IF tag = None THEN NoTitle ELSE Strip(tag)

RECURSIVE JoinComma(_)
\* ", ".join(value_texts)
JoinComma(texts) ==
    IF texts = <<>> THEN <<>>
    ELSE IF Len(texts) = 1 THEN texts[1]
    ELSE texts[1] \o <<",", " ">> \o JoinComma(Tail(texts))

\* specs[key_text] = value: a dict keeps the position of a key it already has
DictSet(d, k, v) ==
    IF \E i \in DOMAIN d : d[i][1] = k
    THEN [i \in DOMAIN d |-> IF d[i][1] = k THEN <<k, v>> ELSE d[i]]
    ELSE Append(d, <<k, v>>)

RECURSIVE SpecsLoop(_, _)
SpecsLoop(items, d) ==
    IF items = <<>> THEN d
    ELSE LET item == Head(items)
             d2 == IF item.key # None
                   THEN DictSet(d, Strip(item.key),
                                JoinComma([i \in DOMAIN item.values |->
                                               Strip(item.values[i])]))
                   ELSE d
         IN SpecsLoop(Tail(items), d2)

\* the specs dict: empty when the page has no specs table
Specs(table) == IF table = None THEN <<>> ELSE SpecsLoop(table, <<>>)

ImageIndexByCount(idx, images) == Len(images)

\* the index an image is named by: idx of enumerate(image_tags), whatever the
\* images list holds by then
ImageIndex(idx, images) == idx

RECURSIVE ImagesLoop(_, _, _, _, _)
\* the loop over image_tags from index idx on. An image is "ok" (saved),
\* "fail" (requests.get or raise_for_status raises before the file is opened:
\* save_image returns None and leaves no file), "partial" (iter_content raises
\* after open(file_path, 'wb'): save_image returns None and the file stays on
\* disk), "nosrc" (no src attribute) or "ioerr" (makedirs, open or f.write
\* raises OSError, which leaves save_image and the loop; the file was created
\* or not, so its path is kept in torn). images is the list of returned
\* paths, files the set of files on disk
ImagesLoop(folder, pid, imgs, idx, acc) ==
    IF idx >= Len(imgs) THEN acc
    ELSE LET img == imgs[idx + 1]
             path == ImagePath(folder, ImageFilename(pid, ImageIndex(idx, acc.images)))
         IN CASE img = "nosrc" ->
                     ImagesLoop(folder, pid, imgs, idx + 1, acc)
              [] img = "ok" ->
                     ImagesLoop(folder, pid, imgs, idx + 1,
                                [acc EXCEPT !.images = Append(@, path),
                                            !.files = @ \cup {path}])
              [] img = "fail" ->
                     ImagesLoop(folder, pid, imgs, idx + 1, acc)
              [] img = "partial" ->
                     ImagesLoop(folder, pid, imgs, idx + 1,
                                [acc EXCEPT !.files = @ \cup {path}])
              [] OTHER -> [acc EXCEPT !.raised = TRUE, !.torn = {path}]

SaveImages(folder, pid, imgs) ==
    ImagesLoop(folder, pid, imgs, 0,
               [images |-> <<>>, files |-> {}, raised |-> FALSE, torn |-> {}])

\* the metadata dict written to the JSON document
Metadata(leaf, pid, page, images) ==
    [product_id |-> pid,
     main_category |-> leaf.main,
     sub_category |-> leaf.sub,
     nested_category |-> leaf.nested,
     title |-> ProductTitle(page.title),
     price |-> TextOrNone(page.price),
     old_price |-> TextOrNone(page.old_price),
     discount |-> TextOrNone(page.discount),
     description |-> TextOrNone(page.description),
     specifications |-> Specs(page.specs),
     additional_details |-> TextOrNone(page.additional_details),
     images |-> images]

\* the tuple bound to the INSERT; subtitle is not in the column list
RowOf(md, json_path) ==
    [main_category |-> md.main_category,
     sub_category |-> md.sub_category,
     nested_category |-> md.nested_category,
     product_id |-> md.product_id,
     title |-> md.title,
     subtitle |-> None,
     price |-> md.price,
     old_price |-> md.old_price,
     discount |-> md.discount,
     description |-> md.description,
     additional_details |-> md.additional_details,
     specs |-> md.specifications,
     images |-> md.images,
     json_path |-> json_path]

---------------------------------------------------------------------------
(* The SQLite tables. A table is the sequence of its rows; a row's id is its
   position. *)

KeyOf(row) ==
    <<row.main_category, row.sub_category, row.nested_category, row.product_id>>

HasKey(table, key) == \E i \in DOMAIN table : KeyOf(table[i]) = key

InsertOrReplaceProduct(table, row) ==
    IF HasKey(table, KeyOf(row))
    THEN [i \in DOMAIN table |->
             IF KeyOf(table[i]) = KeyOf(row) THEN row ELSE table[i]]
    ELSE Append(table, row)

\* INSERT OR IGNORE INTO products: UNIQUE (main_category, sub_category,
\* nested_category, product_id)
InsertOrIgnoreProduct(table, row) ==
    IF HasKey(table, KeyOf(row)) THEN table ELSE Append(table, row)

CatKeyOf(row) == <<row.main_category, row.sub_category>>

InsertCategoryStrict(table, row) ==
    IF \E i \in DOMAIN table : CatKeyOf(table[i]) = CatKeyOf(row)
    THEN [table |-> table, raised |-> TRUE]
    ELSE [table |-> Append(table, row), raised |-> FALSE]

InsertOrReplaceCategory(table, row) ==
    IF \E i \in DOMAIN table : CatKeyOf(table[i]) = CatKeyOf(row)
    THEN [table |-> [i \in DOMAIN table |->
                        IF CatKeyOf(table[i]) = CatKeyOf(row) THEN row
                        ELSE table[i]],
          raised |-> FALSE]
    ELSE [table |-> Append(table, row), raised |-> FALSE]

\* INSERT OR IGNORE INTO categories: UNIQUE (main_category, sub_category)
InsertOrIgnoreCategory(table, row) ==
    IF \E i \in DOMAIN table : CatKeyOf(table[i]) = CatKeyOf(row)
    THEN [table |-> table, raised |-> FALSE]
    ELSE [table |-> Append(table, row), raised |-> FALSE]

---------------------------------------------------------------------------
(* The site the crawler is pointed at *)

\* data-product-id values; NoId is a card whose attribute is missing or empty
Ids == {"A1", "A2", "A3"}
NoId == ""

\* document.body.scrollHeight values. The loop only compares a reading with the
\* one before it, so two values are enough to tell a changed extent from an
\* unchanged one
Heights == {1, 2}

\* what input() may return
Answers ==
    {<<"y", "e", "s">>, <<"Y", "E", "S">>, <<" ", "Y", "e", "s", "\n">>,
     <<"n", "o">>, <<"y">>, <<>>}

Leaf(main, sub, nested, url) ==
    [main |-> main, sub |-> sub, nested |-> nested, url |-> url]

LeafX == Leaf(<<"M">>, <<"S">>, <<"a", "/">>, "u1")
\* same (main, sub) as LeafX, and a nested name that sanitizes to the same text
LeafY == Leaf(<<"M">>, <<"S">>, <<"a", "_">>, "u2")
LeafZ == Leaf(<<"W">>, <<"S">>, <<"a", "/">>, "u3")

\* the leaves of the dict parse_categories returns, in iteration order; a
\* menu that lists a link twice yields the same leaf twice
Trees == {<<LeafX>>, <<LeafX, LeafX>>, <<LeafX, LeafY>>, <<LeafX, LeafZ>>}

RECURSIVE SeqsUpTo(_, _)
\* the sequences over S of length at most n
SeqsUpTo(S, n) ==
    IF n = 0 THEN {<<>>}
    ELSE LET shorter == SeqsUpTo(S, n - 1)
         IN shorter \cup {Append(q, x) : q \in {r \in shorter : Len(r) = n - 1}, x \in S}

\* what find_elements may return on a site that lists the identities ids
CardLists(ids) == SeqsUpTo(ids \cup {NoId}, MaxCards)

ImgLists == SeqsUpTo({"ok", "fail", "partial", "nosrc", "ioerr"}, MaxImages)

Page(title, price, old_price, discount, description, specs, additional, imgs) ==
    [title |-> title, price |-> price, old_price |-> old_price,
     discount |-> discount, description |-> description, specs |-> specs,
     additional_details |-> additional, imgs |-> imgs]

\* a detail page on which every optional marker is absent
EmptyPage == Page(None, None, None, None, None, None, None, <<>>)

SpecsTable ==
    <<[key |-> <<"a", " ">>, values |-> << <<" ", "1">>, <<"b">> >>],
      [key |-> None, values |-> << <<"1">> >>],
      [key |-> <<"a">>, values |-> <<>>],
      [key |-> <<"b">>, values |-> << <<"1", "\n">> >>]>>

FullPage(title, imgs) ==
    Page(title, <<"1", " ">>, <<" ", "1", "1">>, <<"1">>, <<"a", " ", "b">>,
         SpecsTable, <<"\n", "b">>, imgs)

\* the detail pages of a site whose pages carry no marker at all
BarePages == {EmptyPage}

\* the detail pages a site with plain galleries serves
PlainPages ==
    {EmptyPage, FullPage(<<" ", "a", " ">>, <<"ok">>),
     Page(<<"b">>, <<"1">>, None, None, None, None, None, <<>>)}

\* the detail pages a site with every kind of gallery serves
GalleryPages ==
    {FullPage(<<"a">>, imgs) : imgs \in ImgLists} \cup {EmptyPage}

\* a scripted listing page over the identities ids: element 1 is the page as
\* loaded, element 2 the page after a scroll, and then the page stays
Scripts(ids) ==
    {<<first, second>> :
        first \in [cards : {<<>>}, height : Heights],
        second \in [cards : SeqsUpTo(ids, MaxCards), height : Heights]}

---------------------------------------------------------------------------
(* State *)

VARIABLES
    \* persistent: products.db and the assets folder
    categories,      \* the categories table
    products,        \* the products table, as committed to products.db
    pending,         \* rows the connection has inserted and not yet committed
    docs,            \* the JSON documents: the set of <<path, metadata>>
    assets,          \* the image files: the set of their paths
    \* the site, unchanged through a behaviour
    site,            \* [tree, ids, pages, script]
    config,          \* what yaml.safe_load(config.yaml) returns
    scrolled,        \* position in site.script (0 when there is no script)
    \* a call of sanitize_filename
    name,            \* its argument
    result,          \* what it returned: one text for each call made
    \* the process
    run,             \* which process run this is
    pc,              \* where the process is
    catIdx,          \* position of crawl_categories' loop over the leaves
    driverOpen,      \* a browser session is open
    crawled_count,
    products_seen,
    last_height,
    new_height,
    product_elements,
    idx,             \* position of the for loop over product_elements
    product_id,      \* the identity handed to extract_product_metadata
    soup,            \* the parsed detail page
    rec,             \* <<metadata>> once extraction has assembled it
    \* history
    accepted,        \* identities marked seen by this call, in order
    caught,          \* the card handler caught an exception in this scan
    last_insert,     \* what the last INSERT of this scan did to products
    runKeys,         \* the product keys this process has committed a row for
    clean,           \* no failure and no refusal so far, in any run
    prior,           \* the persistent state when this process started
    requested        \* this process has issued a network request

vars ==
    <<categories, products, pending, docs, assets, site, config, name, result,
      requested, scrolled, run, pc, catIdx,
      driverOpen, crawled_count, products_seen, last_height, new_height,
      product_elements, idx, product_id, soup, rec, accepted, caught,
      last_insert, runKeys, clean, prior>>

persistent == <<categories, products, docs, assets>>

\* the products table as the statements of the connection see it: the
\* committed rows and the rows of its open transaction
View == products \o pending

Snapshot ==
    [categories |-> categories, products |-> products, docs |-> docs,
     assets |-> assets]

\* the locals of crawl_products, as they are outside a call
NoCall ==
    /\ crawled_count' = 0
    /\ products_seen' = {}
    /\ last_height' = 0
    /\ new_height' = 0
    /\ product_elements' = <<>>
    /\ idx' = 0
    /\ product_id' = NoId
    /\ soup' = EmptyPage
    /\ rec' = <<>>
    /\ accepted' = <<>>
    /\ caught' = FALSE
    /\ last_insert' = "none"
    /\ scrolled' = 0

callLocals ==
    <<crawled_count, products_seen, last_height, new_height, product_elements,
      idx, product_id, soup, rec, accepted, caught, last_insert, scrolled>>

Range(q) == {q[i] : i \in DOMAIN q}

InitCommon ==
    /\ categories = <<>>
    /\ products = <<>>
    /\ pending = <<>>
    /\ docs = {}
    /\ assets = {}
    /\ scrolled = 0
    /\ run = 1
    /\ pc = "start"
    /\ catIdx = 0
    /\ driverOpen = FALSE
    /\ crawled_count = 0
    /\ products_seen = {}
    /\ last_height = 0
    /\ new_height = 0
    /\ product_elements = <<>>
    /\ idx = 0
    /\ product_id = NoId
    /\ soup = EmptyPage
    /\ rec = <<>>
    /\ accepted = <<>>
    /\ caught = FALSE
    /\ last_insert = "none"
    /\ runKeys = {}
    /\ clean = TRUE
    /\ requested = FALSE
    /\ prior = [categories |-> <<>>, products |-> <<>>, docs |-> {},
                assets |-> {}]

\* a config file without one of the two keys the module reads
BrokenConfigs ==
    {[keys |-> ks, products_per_subcategory |-> 0] :
        ks \in {{"base_url"}, {"products_per_subcategory"}}}

\* the dicts yaml.safe_load may return: both keys with a positive count, or a
\* key missing
Configs ==
    {[keys |-> {"base_url", "products_per_subcategory"},
      products_per_subcategory |-> n] : n \in 1..MaxCap}
      \cup BrokenConfigs

\* PRODUCTS_PER_SUBCATEGORY = config['products_per_subcategory']
PRODUCTS_PER_SUBCATEGORY == config.products_per_subcategory

BaseUrlOnly == "base_url" \in config.keys

\* BASE_URL = config['base_url'] and the line after it raise no KeyError
ConfigLoads == {"base_url", "products_per_subcategory"} \subseteq config.keys

Site(tree, ids, pages, script) ==
    [tree |-> tree, ids |-> ids, pages |-> pages, script |-> script]

\* a first run on an empty store, against a site whose listing pages may
\* render anything: one leaf listing every identity, with bare detail pages;
\* or up to two leaves listing one identity, with plain detail pages; or one
\* leaf listing one identity, with detail pages of every kind of gallery
Init ==
    /\ InitCommon
    /\ name = <<>>
    /\ result = <<>>
    /\ config \in Configs
    /\ site \in {Site(<<LeafX>>, Ids, "bare", <<>>),
                 Site(<<LeafX>>, {"A1"}, "gallery", <<>>)}
                   \cup {Site(tree, {"A1"}, "plain", <<>>) : tree \in Trees}

\* a first run on an empty store, against a site whose one listing page
\* renders the same at every visit
InitRerun ==
    /\ InitCommon
    /\ name = <<>>
    /\ result = <<>>
    /\ config \in Configs
    /\ site \in {Site(<<LeafX>>, {"A1", "A2"}, "bare", script) :
                     script \in Scripts({"A1", "A2"})}

DetailPages ==
    CASE site.pages = "gallery" -> GalleryPages
      [] site.pages = "bare" -> BarePages
      [] OTHER -> PlainPages

\* what the listing page shows after one more scroll
Rendered ==
    IF site.script = <<>> THEN [cards : CardLists(site.ids), height : Heights]
    ELSE {site.script[IF scrolled + 2 <= Len(site.script)
                      THEN scrolled + 2 ELSE Len(site.script)]}

LoadedHeights ==
    IF site.script = <<>> THEN Heights ELSE {site.script[1].height}

---------------------------------------------------------------------------
(* The file system *)

HasFile(files, path) == \E f \in files : f[1] = path

\* the content of a file: <<metadata>> for a document json.dump has written,
\* Truncated for the empty file open(json_path, "w") leaves when the write
\* does not follow
FileAt(files, path) == (CHOOSE f \in files : f[1] = path)[2]

Truncated == <<>>

WriteIfAbsent(files, path, content) ==
    IF HasFile(files, path) THEN files ELSE files \cup {<<path, content>>}

WriteLater(files, path, content) == files

\* open(json_path, "w") and json.dump: an existing file is truncated
WriteFile(files, path, content) ==
    {f \in files : f[1] # path} \cup {<<path, content>>}

---------------------------------------------------------------------------
(* Module level: lines 21-66 *)

DropCategories(table) == <<>>

\* CREATE TABLE IF NOT EXISTS categories: a table that exists keeps its rows
EnsureCategories(table) == table

KeepProducts(table) == table

\* DROP TABLE IF EXISTS products; CREATE TABLE IF NOT EXISTS products
RebuildProducts(table) == <<>>

\* the module body up to the commit. A config file without a required key
\* raises KeyError before the database is opened. A statement of lines 29-66
\* may raise sqlite3.Error (the database is locked by another connection, the
\* disk is full): nothing catches at module level. Each statement is written
\* as it returns, so a failure up to the DROP of line 44 leaves the tables as
\* they were and a failure after it leaves products dropped.
ModuleSetup ==
    /\ pc = "start"
    /\ prior' = Snapshot
    /\ runKeys' = {}
    /\ IF ConfigLoads
       THEN \/ /\ categories' = EnsureCategories(categories)
               /\ products' = RebuildProducts(products)
               /\ pc' = "discover"
               /\ clean' = clean
            \/ \* connect, CREATE TABLE categories or DROP TABLE raises
               /\ categories' = categories
               /\ products' = products
               /\ pc' = "crashed"
               /\ clean' = FALSE
            \/ \* CREATE TABLE products or the commit of line 66 raises
               /\ categories' = EnsureCategories(categories)
               /\ products' = RebuildProducts(products)
               /\ pc' = "crashed"
               /\ clean' = FALSE
       ELSE /\ categories' = categories
            /\ products' = products
            /\ pc' = "crashed"
            /\ clean' = FALSE
    /\ UNCHANGED <<pending, docs, assets, site, config, name, result,
                   requested, run, catIdx, driverOpen,
                   callLocals>>

---------------------------------------------------------------------------
(* crawl_categories *)

\* get_soup(BASE_URL), parse_categories, display_categories
Discover ==
    /\ pc = "discover"
    /\ \E ok \in BOOLEAN :
          IF ok THEN pc' = "confirm" /\ clean' = clean
          ELSE pc' = "crashed" /\ clean' = FALSE
    /\ requested' = TRUE
    /\ UNCHANGED <<persistent, pending, site, config, name, result,
                   run, catIdx, driverOpen, callLocals,
                   runKeys, prior>>

\* input(...).strip().lower()
Normalize(answer) == Lower(Strip(answer))

\* confirm == "yes"
Affirmative(answer) == Normalize(answer) = <<"y", "e", "s">>

Confirm ==
    /\ pc = "confirm"
    /\ \/ \E answer \in Answers :
             IF Affirmative(answer)
             THEN pc' = "categories" /\ catIdx' = 1 /\ clean' = clean
             ELSE pc' = "exit" /\ catIdx' = catIdx /\ clean' = FALSE
       \/ \* standard input is at end of file: input() raises EOFError, which
          \* nothing catches
          /\ pc' = "crashed"
          /\ catIdx' = catIdx
          /\ clean' = FALSE
    /\ UNCHANGED <<persistent, pending, site, config, name, result,
                   requested, run, driverOpen, callLocals, runKeys,
                   prior>>

\* one turn of the loop over the leaves, up to the while loop of
\* crawl_products: the category insert and commit, webdriver.Chrome,
\* driver.get, the first scrollHeight
BeginCategory ==
    /\ pc = "categories"
    /\ catIdx <= Len(site.tree)
    /\ LET leaf == site.tree[catIdx]
           ins == InsertOrIgnoreCategory(categories,
                      [main_category |-> leaf.main, sub_category |-> leaf.sub,
                       url |-> leaf.url])
       IN \/ \* cursor.execute or db_connection.commit raises (line 303 or
             \* 307): nothing is committed, nothing catches
             /\ pc' = "crashed"
             /\ clean' = FALSE
             /\ UNCHANGED <<categories, products, pending, runKeys,
                            driverOpen, last_height, requested>>
          \/ IF ins.raised
             THEN /\ pc' = "crashed"
                  /\ UNCHANGED <<categories, products, pending, runKeys,
                                 driverOpen, last_height, clean, requested>>
             ELSE /\ categories' = ins.table
                  \* the commit of line 307 ends the open transaction: product
                  \* rows an earlier failed commit left in it are written too
                  /\ products' = View
                  /\ pending' = <<>>
                  /\ runKeys' = runKeys \cup {KeyOf(pending[i]) : i \in DOMAIN pending}
                  /\ \E outcome \in {"ok", "no session", "session error"} :
                        CASE outcome = "ok" ->
                                 /\ driverOpen' = TRUE
                                 /\ requested' = TRUE
                                 /\ pc' = "while"
                                 /\ last_height' \in LoadedHeights
                                 /\ clean' = clean
                          [] outcome = "no session" ->
                                 \* webdriver.Chrome raises
                                 /\ driverOpen' = FALSE
                                 /\ requested' = requested
                                 /\ pc' = "crashed"
                                 /\ last_height' = last_height
                                 /\ clean' = FALSE
                          [] OTHER ->
                                 \* driver.get or execute_script raises: the
                                 \* exception leaves the call past driver.quit()
                                 /\ driverOpen' = TRUE
                                 /\ requested' = TRUE
                                 /\ pc' = "crashed"
                                 /\ last_height' = last_height
                                 /\ clean' = FALSE
    /\ UNCHANGED <<docs, assets, site, config, name, result,
                   scrolled, run, catIdx,
                   crawled_count, products_seen, new_height, product_elements,
                   idx, product_id, soup, rec, accepted, caught, last_insert,
                   prior>>

\* the loop over the leaves is exhausted: crawl_categories returns
EndCategories ==
    /\ pc = "categories"
    /\ catIdx > Len(site.tree)
    /\ pc' = "exit"
    /\ UNCHANGED <<persistent, pending, site, config, name, result,
                   requested, run, catIdx, driverOpen, callLocals,
                   runKeys, clean, prior>>

---------------------------------------------------------------------------
(* crawl_products *)

NoCap(count) == TRUE

\* crawled_count < PRODUCTS_PER_SUBCATEGORY, the while condition and the
\* negation of the for loop's break condition
BelowCap(count) == count < PRODUCTS_PER_SUBCATEGORY

NotEmpty(pid, seen) == pid # NoId

\* product_id and product_id not in products_seen
IsNew(pid, seen) == pid # NoId /\ pid \notin seen

\* print "Finished crawling", driver.quit(), return to the loop over the leaves
Finish ==
    /\ driverOpen' = FALSE
    /\ catIdx' = catIdx + 1
    /\ pc' = "categories"
    /\ NoCall

\* the while condition holds: scroll, sleep, find_elements
Scroll ==
    /\ pc = "while"
    /\ BelowCap(crawled_count)
    /\ \E ok \in BOOLEAN :
          IF ok
          THEN /\ \E r \in Rendered : product_elements' = r.cards
               /\ idx' = 1
               /\ scrolled' = IF site.script = <<>> THEN 0
                              ELSE IF scrolled + 2 <= Len(site.script)
                                   THEN scrolled + 1 ELSE scrolled
               /\ caught' = FALSE
               /\ last_insert' = "none"
               /\ pc' = "for"
               /\ clean' = clean
          ELSE /\ pc' = "crashed"
               /\ clean' = FALSE
               /\ UNCHANGED <<product_elements, idx, scrolled, caught,
                              last_insert>>
    /\ UNCHANGED <<persistent, pending, site, config, name, result,
                   requested, run, catIdx, driverOpen, crawled_count,
                   products_seen, last_height, new_height, product_id, soup,
                   rec, accepted, runKeys, prior>>

\* the while condition fails: the count is reached
CapReached ==
    /\ pc = "while"
    /\ ~BelowCap(crawled_count)
    /\ Finish
    /\ UNCHANGED <<persistent, pending, site, config, name, result,
                   requested, run, runKeys, clean, prior>>

SeleniumOnly(exc) ==
    exc \in {"StaleElementReferenceException", "NoSuchElementException"}

\* except Exception: every exception the loop body raises is one
Catches(exc) == TRUE

NextCard ==
    /\ idx' = idx + 1
    /\ pc' = "for"
    /\ product_id' = NoId
    /\ soup' = EmptyPage
    /\ rec' = <<>>

\* exception exc is raised in the for loop body: the handler prints it and the
\* loop goes on with the next card
Raise(exc) ==
    /\ clean' = FALSE
    /\ IF Catches(exc)
       THEN NextCard /\ caught' = TRUE
       ELSE pc' = "crashed" /\ UNCHANGED <<idx, product_id, soup, rec, caught>>

SeenBeforeLookup(pid, seen, found) == seen \cup {pid}

\* products_seen once the link lookup of line 228 has returned (found) or
\* raised: products_seen.add comes after the lookup
SeenAfterLookup(pid, seen, found) == IF found THEN seen \cup {pid} ELSE seen

\* one turn of the for loop, up to the call of extract_product_metadata
InspectCard ==
    /\ pc = "for"
    /\ idx <= Len(product_elements)
    /\ BelowCap(crawled_count)
    /\ LET pid == product_elements[idx]
       IN \/ \* get_attribute raises (stale element reference)
             /\ Raise("StaleElementReferenceException")
             /\ UNCHANGED <<products_seen, crawled_count, accepted>>
          \/ /\ ~IsNew(pid, products_seen)
             /\ NextCard
             /\ UNCHANGED <<products_seen, crawled_count, accepted, caught,
                            clean>>
          \/ \* find_element raises (no link element)
             /\ IsNew(pid, products_seen)
             /\ Raise("NoSuchElementException")
             /\ products_seen' = SeenAfterLookup(pid, products_seen, FALSE)
             /\ UNCHANGED <<crawled_count, accepted>>
          \/ /\ IsNew(pid, products_seen)
             /\ products_seen' = SeenAfterLookup(pid, products_seen, TRUE)
             /\ crawled_count' = crawled_count + 1
             /\ accepted' = Append(accepted, pid)
             /\ product_id' = pid
             /\ pc' = "extract"
             /\ UNCHANGED <<idx, soup, rec, caught, clean>>
    /\ UNCHANGED <<persistent, pending, site, config, name, result,
                   requested, scrolled, run, catIdx, driverOpen,
                   last_height, new_height, product_elements, last_insert,
                   runKeys, prior>>

\* the for loop ends: the list is exhausted or the break is taken
EndScan ==
    /\ pc = "for"
    /\ (idx > Len(product_elements) \/ ~BelowCap(crawled_count))
    /\ pc' = "height"
    /\ UNCHANGED <<persistent, pending, site, config, name, result,
                   requested, scrolled, run, catIdx, driverOpen,
                   crawled_count, products_seen, last_height, new_height,
                   product_elements, idx, product_id, soup, rec, accepted,
                   caught, last_insert, runKeys, clean, prior>>

\* new_height = driver.execute_script("return document.body.scrollHeight")
ReadHeight ==
    /\ pc = "height"
    /\ \E ok \in BOOLEAN :
          IF ok
          THEN /\ new_height' \in
                      (IF site.script = <<>> THEN Heights
                       ELSE {site.script[scrolled + 1].height})
               /\ pc' = "compare"
               /\ clean' = clean
          ELSE /\ new_height' = new_height
               /\ pc' = "crashed"
               /\ clean' = FALSE
    /\ UNCHANGED <<persistent, pending, site, config, name, result,
                   requested, scrolled, run, catIdx, driverOpen,
                   crawled_count, products_seen, last_height,
                   product_elements, idx, product_id, soup, rec, accepted,
                   caught, last_insert, runKeys, prior>>

\* new_height == last_height
AtBottom(new, last) == new = last

\* the end of the while body: break at the bottom, else remember the height
CompareHeight ==
    /\ pc = "compare"
    /\ IF AtBottom(new_height, last_height)
       THEN Finish
       ELSE /\ last_height' = new_height
            /\ new_height' = 0
            /\ pc' = "while"
            /\ UNCHANGED <<scrolled, catIdx, driverOpen, crawled_count,
                           products_seen, product_elements, idx, product_id,
                           soup, rec, accepted, caught, last_insert>>
    /\ UNCHANGED <<persistent, pending, site, config, name, result,
                   requested, run, runKeys, clean, prior>>

---------------------------------------------------------------------------
(* extract_product_metadata *)

\* lines 101-175: get_soup, the fields, the image loop, the metadata dict
Fetch ==
    /\ pc = "extract"
    /\ LET leaf == site.tree[catIdx]
           folder == product_folder(leaf.main, leaf.sub, leaf.nested, product_id)
       IN \/ \* get_soup raises
             /\ Raise("RequestException")
             /\ assets' = assets
          \/ \E page \in DetailPages :
                LET saved == SaveImages(folder, product_id, page.imgs)
                IN IF saved.raised
                   THEN /\ Raise("OSError")
                        /\ assets' \in {assets \cup saved.files,
                                        assets \cup saved.files \cup saved.torn}
                   ELSE /\ assets' = assets \cup saved.files
                        /\ soup' = page
                        /\ rec' = <<Metadata(leaf, product_id, page, saved.images)>>
                        /\ pc' = "write"
                        /\ clean' = (clean /\ \A i \in DOMAIN page.imgs :
                                                 page.imgs[i] \notin {"fail", "partial"})
                        /\ UNCHANGED <<idx, product_id, caught>>
    /\ requested' = TRUE
    /\ UNCHANGED <<categories, products, pending, docs, site, config, name,
                   result,
                   scrolled, run, catIdx,
                   driverOpen, crawled_count, products_seen, last_height,
                   new_height, product_elements, accepted, last_insert,
                   runKeys, prior>>

WriteDocDeferred ==
    /\ pc = "write"
    /\ NextCard
    /\ UNCHANGED <<persistent, pending, site, config, name, result,
                   requested, scrolled, run, catIdx, driverOpen,
                   crawled_count, products_seen, last_height, new_height,
                   product_elements, accepted, caught, last_insert, runKeys,
                   clean, prior>>

\* lines 177-179: the JSON document
WriteDoc ==
    /\ pc = "write"
    /\ LET md == rec[1]
           json_path == JsonPath(md.main_category, md.sub_category,
                                 md.nested_category, md.product_id)
       IN \/ /\ docs' = WriteFile(docs, json_path, <<md>>)
             /\ pc' = "insert"
             /\ UNCHANGED <<idx, product_id, soup, rec, caught, clean>>
          \/ \* open raises: the file system is as it was
             /\ Raise("OSError")
             /\ docs' = docs
          \/ \* json.dump or the close raises after open has created or
             \* truncated the file
             /\ Raise("OSError")
             /\ docs' = WriteFile(docs, json_path, Truncated)
    /\ UNCHANGED <<categories, products, pending, assets, site, config, name,
                   result,
                   requested, scrolled, run, catIdx,
                   driverOpen, crawled_count, products_seen, last_height,
                   new_height, product_elements, accepted, last_insert,
                   runKeys, prior>>

\* lines 182-191: the insert and the commit. The INSERT acts on the table as
\* the connection sees it; the commit writes the open transaction, the rows an
\* earlier failed commit left in it included, unless a rollback took them
InsertRow ==
    /\ pc = "insert"
    /\ LET md == rec[1]
           json_path == JsonPath(md.main_category, md.sub_category,
                                 md.nested_category, md.product_id)
           executed == InsertOrIgnoreProduct(View, RowOf(md, json_path))
       IN \/ \* cursor.execute and db_connection.commit return
             /\ products' = executed
             /\ pending' = <<>>
             /\ last_insert' = IF Len(executed) > Len(View)
                               THEN "added" ELSE "ignored"
             /\ runKeys' = runKeys \cup {KeyOf(executed[i]) : i \in DOMAIN executed}
             /\ NextCard
             /\ UNCHANGED <<caught, clean>>
          \/ \* cursor.execute raises: the open transaction stays as it is, or
             \* SQLite rolls it back (I/O error, disk full)
             /\ Raise("sqlite3.Error")
             /\ products' = products
             /\ pending' \in {pending, <<>>}
             /\ last_insert' = "none"
             /\ runKeys' = runKeys
          \/ \* cursor.execute returns and db_connection.commit raises: the
             \* row stays in the open transaction (database is locked), or
             \* SQLite rolls the transaction back (I/O error, disk full) and
             \* the row and the rows left pending before it are gone
             /\ Raise("sqlite3.Error")
             /\ products' = products
             /\ pending' \in {SubSeq(executed, Len(products) + 1, Len(executed)),
                              <<>>}
             /\ last_insert' = "none"
             /\ runKeys' = runKeys
    /\ UNCHANGED <<categories, docs, assets, site, config, name, result,
                   requested, scrolled, run, catIdx,
                   driverOpen, crawled_count, products_seen, last_height,
                   new_height, product_elements, accepted, prior>>

---------------------------------------------------------------------------
(* The operator starts the program again, on the store and the assets folder
   the earlier run left *)

Restart ==
    /\ pc \in {"exit", "crashed"}
    /\ run < MaxRuns
    /\ run' = run + 1
    /\ pc' = "start"
    /\ catIdx' = 0
    /\ driverOpen' = FALSE
    /\ NoCall
    /\ requested' = FALSE
    \* the config file is as it was, or has lost a key since
    /\ config' \in {config} \cup BrokenConfigs
    \* the connection of the process that ended is gone, and what it had not
    \* committed with it
    /\ pending' = <<>>
    /\ UNCHANGED <<persistent, site, name, result, runKeys, clean, prior>>

---------------------------------------------------------------------------
(* sanitize_filename on its own *)

\* characters of the texts: kept ones (a letter, a Persian letter, the Arabic
\* comma, hyphen, underscore, space) and replaced ones (slash, dot, newline)
Alphabet == {"a", "keheh", "arcomma", "-", "_", " ", "/", ".", "\n"}

Texts == SeqsUpTo(Alphabet, MaxLen)

InitSanitize ==
    /\ InitCommon
    /\ config = [keys |-> {"base_url", "products_per_subcategory"},
                 products_per_subcategory |-> 1]
    /\ site = Site(<<LeafX>>, {"A1"}, "bare", <<>>)
    /\ name \in Texts
    /\ result = <<>>

\* sanitize_filename(name) returns
SanitizeCall ==
    /\ result = <<>>
    /\ result' = <<sanitize_filename(name)>>
    /\ UNCHANGED <<persistent, pending, site, config, name, requested, run, pc, catIdx,
                   driverOpen, callLocals, runKeys, clean, prior>>

\* the value returned is handed to sanitize_filename again
SanitizeAgain ==
    /\ Len(result) = 1
    /\ result' = Append(result, sanitize_filename(result[1]))
    /\ UNCHANGED <<persistent, pending, site, config, name, requested, run, pc, catIdx,
                   driverOpen, callLocals, runKeys, clean, prior>>

NextSanitize == SanitizeCall \/ SanitizeAgain

SpecSanitize == InitSanitize /\ [][NextSanitize]_vars

---------------------------------------------------------------------------

Next ==
    \/ ModuleSetup
    \/ Discover
    \/ Confirm
    \/ BeginCategory
    \/ EndCategories
    \/ Scroll
    \/ CapReached
    \/ InspectCard
    \/ EndScan
    \/ ReadHeight
    \/ CompareHeight
    \/ Fetch
    \/ WriteDoc
    \/ InsertRow

NextRerun == Next \/ Restart

\* one process run
Spec == Init /\ [][Next]_vars

\* up to MaxRuns process runs, one after the other
SpecRerun == InitRerun /\ [][NextRerun]_vars

---------------------------------------------------------------------------
(* Properties *)

NoDuplicates(q) == \A i, j \in DOMAIN q : i # j => q[i] # q[j]

UniqueKeys(table) ==
    \A i, j \in DOMAIN table : i # j => KeyOf(table[i]) # KeyOf(table[j])

\* the key and the document path of the record extraction has assembled
\* the rows of table q are the first rows of table r, unchanged
IsPrefix(q, r) == Len(q) <= Len(r) /\ SubSeq(r, 1, Len(q)) = q

RecKey == KeyOf(RowOf(rec[1], <<>>))
RecPath ==
    JsonPath(rec[1].main_category, rec[1].sub_category, rec[1].nested_category,
             rec[1].product_id)

\* C1: the identities crawl_products accepts in one call (marks seen and hands
\* to extraction) contain no duplicate and number at most
\* PRODUCTS_PER_SUBCATEGORY, whatever the scans render.
C1_AcceptedDistinctAndCapped ==
    /\ NoDuplicates(accepted)
    /\ Len(accepted) <= PRODUCTS_PER_SUBCATEGORY

\* C1 witness: the cap is reached while the scan still holds an unseen card.
C1_Witness ==
    /\ pc = "for"
    /\ Len(accepted) = PRODUCTS_PER_SUBCATEGORY
    /\ idx <= Len(product_elements)
    /\ product_elements[idx] # NoId
    /\ product_elements[idx] \notin products_seen

\* C2: an insert into products whose key already has a row adds no row and
\* changes none: every committed row stays where and what it was, the table
\* the connection sees is as it was once the INSERT was ignored and committed
\* (when the statement or the commit raises it is as it was or without the
\* uncommitted rows a rollback took), and neither that table nor the
\* committed one ever holds two rows with the same (main_category,
\* sub_category, nested_category, product_id).
C2_FirstWriteWins ==
    [][/\ (pc = "insert" /\ HasKey(View, RecKey)) =>
             /\ IsPrefix(products, View')
             /\ IsPrefix(View', View)
             /\ (last_insert' = "ignored") => (View' = View)
       /\ UniqueKeys(View')
       /\ UniqueKeys(products')]_vars

\* C2 witness: an insert was ignored, and the row it met has another title
\* than the document the same extraction wrote.
C2_Witness ==
    /\ last_insert = "ignored"
    /\ \E i \in DOMAIN products :
          /\ HasFile(docs, products[i].json_path)
          /\ FileAt(docs, products[i].json_path) # Truncated
          /\ FileAt(docs, products[i].json_path)[1].title # products[i].title

\* C3: when a key that already has a products row is extracted again in the
\* same process, the document at its path holds the metadata of this second
\* extraction once it is done, and the products row still holds what the first
\* extraction inserted.
C3_DocLastRowFirst ==
    [][(pc = "insert" /\ last_insert' = "ignored") =>
          /\ HasFile(docs', RecPath)
          /\ FileAt(docs', RecPath) = rec
          /\ \E i \in DOMAIN View :
                /\ KeyOf(View[i]) = RecKey
                /\ products'[i] = View[i]]_vars

\* C3 witness: after the second extraction of a key, with a page that differs
\* in more than the title, the document holds the new price and the row the
\* old one.
C3_Witness ==
    /\ last_insert = "ignored"
    /\ \E i \in DOMAIN products :
          /\ HasFile(docs, products[i].json_path)
          /\ FileAt(docs, products[i].json_path) # Truncated
          /\ FileAt(docs, products[i].json_path)[1].product_id = products[i].product_id
          /\ FileAt(docs, products[i].json_path)[1].price # products[i].price
          /\ products[i].price # None

\* C4 as stated: in a run that starts on a store whose products table holds
\* rows, no product insert adds a row (each one meets its key and is ignored).
C4_RerunInsertsAllIgnored ==
    (run >= 2 /\ prior.products # <<>>) => last_insert # "added"

\* C4 as amended: the products table is emptied when a process starts, so in
\* every run, the second one included, the table holds exactly one row for
\* each key the run itself has inserted: the first insert of a key adds the
\* row, a later insert of that key in the same run is ignored, and no row of
\* the prior store is met.
C4_RebuiltByEachRun ==
    pc \notin {"start", "crashed"} =>
        /\ {KeyOf(products[i]) : i \in DOMAIN products} = runKeys
        /\ UniqueKeys(products)

\* C4 witness: the second run, started on a table that held rows, has added a
\* row.
C4_Witness ==
    /\ run >= 2
    /\ prior.products # <<>>
    /\ last_insert = "added"
    /\ runKeys # {}

\* C5: when two runs over the same leaf, with the listing page rendering the
\* same and no failure or refusal in either run, have both ended, products
\* holds as many rows as it held when the first run ended.
C5_SameRowCount ==
    (run >= 2 /\ pc \in {"exit", "crashed"} /\ clean) =>
        Len(products) = Len(prior.products)

\* C5 witness: the second run has ended cleanly with two rows.
C5_Witness ==
    /\ run = 2
    /\ pc = "exit"
    /\ clean
    /\ Len(products) = 2
    /\ Len(prior.products) = 2

\* C6: until the operator has answered yes, and after an answer other than yes
\* has ended the run, the tables and the files are what they were when the
\* process started.
C6_NothingBeforeYes ==
    (pc \in {"discover", "confirm"} \/ (pc = "exit" /\ catIdx = 0)) =>
        Snapshot = prior

\* C7: every step taken while a card is inspected or extracted, a failure
\* included, stays in the same call of crawl_products with the same scan and
\* the session open, and either goes on with this card or moves the for loop
\* to the next card: it never ends the scan, the call or the process.
C7_CardFailureContained ==
    [][(\/ pc \in {"extract", "write", "insert"}
        \/ (pc = "for" /\ idx <= Len(product_elements)
               /\ crawled_count < PRODUCTS_PER_SUBCATEGORY))
       => (/\ pc' \in {"for", "extract", "write", "insert"}
           /\ catIdx' = catIdx
           /\ driverOpen' = driverOpen
           /\ product_elements' = product_elements
           /\ last_height' = last_height
           /\ products_seen \subseteq products_seen'
           /\ (idx' = idx \/ (idx' = idx + 1 /\ pc' = "for")))]_vars

\* C7 witness: in the second category, after the handler caught the failure of
\* the first card of a scan, the second card of that scan is being inserted.
C7_Witness ==
    /\ catIdx = 2
    /\ caught
    /\ idx = 2
    /\ pc = "insert"

\* the paths of the images that were saved, each named by its position
RECURSIVE ExpectedImages(_, _, _, _)
ExpectedImages(folder, pid, imgs, n) ==
    IF n = 0 THEN <<>>
    ELSE LET before == ExpectedImages(folder, pid, imgs, n - 1)
         IN IF imgs[n] = "ok"
            THEN Append(before, Append(folder, <<pid, "_image_", Digits[n], ".jpg">>))
            ELSE before

\* C8: when the extraction of a page is persisted, the images list of the
\* document and of the inserted row is exactly the images that were saved, in
\* page order, each with the file name of its 1-based position on the page;
\* images whose download failed or that have no src are left out and do not
\* stop the record from being written.
C8_ImagesSavedInOrder ==
    [][(pc = "insert" /\ last_insert' = "added") =>
          (LET md == rec[1]
               want == ExpectedImages(
                           product_folder(md.main_category, md.sub_category,
                                          md.nested_category, md.product_id),
                           md.product_id, soup.imgs, Len(soup.imgs))
           IN /\ products'[Len(products')].images = want
              /\ FileAt(docs', RecPath) = rec
              /\ FileAt(docs', RecPath)[1].images = want)]_vars

\* C8 witness: a row was added whose images are image 1 and image 3 of a
\* three-image page, after a download failed.
C8_Witness ==
    /\ last_insert = "added"
    /\ ~clean
    /\ Len(products) = 1
    /\ LET folder == product_folder(LeafX.main, LeafX.sub, LeafX.nested, "A1")
       IN products[1].images =
              <<Append(folder, <<"A1", "_image_", "1", ".jpg">>),
                Append(folder, <<"A1", "_image_", "3", ".jpg">>)>>

\* what extraction yields for the page without optional markers
BareMetadata(leaf, pid) ==
    [product_id |-> pid, main_category |-> leaf.main,
     sub_category |-> leaf.sub, nested_category |-> leaf.nested,
     title |-> <<"No Title Found">>, price |-> None, old_price |-> None,
     discount |-> None, description |-> None, specifications |-> <<>>,
     additional_details |-> None, images |-> <<>>]

\* C9: a fetched detail page without any optional marker is extracted to the
\* end: the metadata has the category triple, the product id, the title
\* "No Title Found" and every other field None or empty; the document is
\* written with it; and the INSERT carries it, so the row it adds has it.
C9_BarePagePersisted ==
    [][/\ (pc = "extract" /\ pc' = "write" /\ soup' = EmptyPage) =>
             (rec' = <<BareMetadata(site.tree[catIdx], product_id)>>)
       /\ (pc = "write" /\ pc' = "insert" /\ soup = EmptyPage) =>
             (HasFile(docs', RecPath) /\ FileAt(docs', RecPath) = rec)
       /\ (pc = "insert" /\ soup = EmptyPage /\ last_insert' = "added") =>
             (LET row == products'[Len(products')]
              IN /\ KeyOf(row) = <<site.tree[catIdx].main, site.tree[catIdx].sub,
                                   site.tree[catIdx].nested, product_id>>
                 /\ row.title = <<"No Title Found">>
                 /\ row.price = None /\ row.old_price = None
                 /\ row.discount = None /\ row.description = None
                 /\ row.additional_details = None /\ row.subtitle = None
                 /\ row.specs = <<>> /\ row.images = <<>>
                 /\ row.json_path = RecPath)]_vars

\* C9 witness: a row with the placeholder title and no other field was added,
\* and its document is on disk.
C9_Witness ==
    /\ last_insert = "added"
    /\ LET row == products[Len(products)]
       IN /\ row.title = <<"No Title Found">>
          /\ row.price = None
          /\ row.specs = <<>>
          /\ HasFile(docs, row.json_path)
          /\ FileAt(docs, row.json_path) # Truncated
          /\ FileAt(docs, row.json_path)[1].title = <<"No Title Found">>

\* C10: inside one call, the loop scrolls again exactly when the count is below
\* the cap and the height read after the last scroll differs from the height
\* before it: it leaves the comparison for the while test iff the heights
\* differ, and it leaves the while test for a scroll (which may fail) iff the
\* count is below PRODUCTS_PER_SUBCATEGORY.
C10_ScrollIffBelowCapAndGrown ==
    [][/\ (pc = "compare") => (pc' = "while" <=> new_height # last_height)
       /\ (pc = "while") =>
             (pc' \in {"for", "crashed"}
                 <=> crawled_count < PRODUCTS_PER_SUBCATEGORY)]_vars

\* C10 witness: A1 then A2 were accepted, the page had grown, and the while
\* test is reached with the count at the cap.
C10_Witness ==
    /\ pc = "while"
    /\ accepted = <<"A1", "A2">>
    /\ crawled_count = PRODUCTS_PER_SUBCATEGORY
    /\ last_height # 0

\* C11: outside a call of crawl_products (between the categories, and when the
\* process has ended, normally or by an exception that left the call) no
\* browser session is open: the session a call opened was closed on the way
\* out, whichever way out it took.
C11_SessionClosedOnEveryExit ==
    pc \in {"categories", "exit", "crashed"} => ~driverOpen

---------------------------------------------------------------------------
(* Termination *)

\* one process run in which the program keeps taking steps while it can: the
\* interpreter runs the single thread until it returns or raises
SpecLive == Init /\ [][Next]_vars /\ WF_vars(Next)

\* C12: every run ends: each call of crawl_products leaves its while loop,
\* whatever the listing page renders and whatever heights it reports, so the
\* loop over the leaves is exhausted and the process exits (or an exception
\* ends it).
C12_EveryRunEnds == <>(pc \in {"exit", "crashed"})

\* C13: processing is sequential. The position in the loop over the leaves
\* never goes back and moves on by one only when the call of crawl_products
\* for the current leaf has left its while loop; while an accepted card is
\* being extracted the leaf and the scan stay as they are; and the for loop
\* reaches the next card only after the insert of this card was executed and
\* committed (its document written before it) or an exception of this card
\* was caught.
C13_StrictlySequential ==
    [][/\ catIdx' >= catIdx
       /\ (catIdx' # catIdx /\ catIdx > 0) =>
             (pc \in {"while", "compare"} /\ pc' = "categories"
                 /\ catIdx' = catIdx + 1)
       /\ (pc \in {"extract", "write", "insert"}) =>
             (catIdx' = catIdx /\ product_elements' = product_elements)
       /\ (pc \in {"extract", "write", "insert"} /\ pc' = "for") =>
             (/\ idx' = idx + 1
              /\ \/ (pc = "insert" /\ last_insert' \in {"added", "ignored"}
                        /\ HasKey(products', RecKey) /\ pending' = <<>>
                        /\ HasFile(docs', RecPath))
                 \/ (caught' /\ ~clean'))]_vars

\* C13 witness: in the second leaf, the second card of a scan is reached after
\* the first card was extracted and inserted without a failure.
C13_Witness ==
    /\ catIdx = 2
    /\ pc = "for"
    /\ idx = 2
    /\ idx <= Len(product_elements)
    /\ last_insert \in {"added", "ignored"}
    /\ ~caught

\* C14: the table setup of every process start leaves products empty and
\* categories with every row it held (a start that a configuration without a
\* required key ends before the table setup touches neither table), and no
\* step of the program removes or changes a categories row: the table only
\* grows at its end.
C14_ProductsResetCategoriesKept ==
    [][/\ (pc = "start" /\ pc' = "discover") =>
             (products' = <<>> /\ categories' = categories)
       /\ IsPrefix(categories, categories')]_vars

\* C14 witness: a later run has passed its table setup; the products rows of
\* the earlier run are gone and its categories row is still there.
C14_Witness ==
    /\ run >= 2
    /\ pc = "discover"
    /\ prior.products # <<>>
    /\ products = <<>>
    /\ categories # <<>>
    /\ categories = prior.categories

\* the (main, sub) of a leaf, and the positions of the leaves that share it
LeafCatKey(leaf) == <<leaf.main, leaf.sub>>
Sharing(tree, key) == {j \in DOMAIN tree : LeafCatKey(tree[j]) = key}
FirstSharing(tree, key) ==
    CHOOSE j \in Sharing(tree, key) : \A k \in Sharing(tree, key) : j <= k
LastSharing(tree, key) ==
    CHOOSE j \in Sharing(tree, key) : \A k \in Sharing(tree, key) : j >= k
RowsOf(table, key) == {i \in DOMAIN table : CatKeyOf(table[i]) = key}

\* C15 as stated: when the run has gone through every leaf, categories holds
\* exactly one row for the (main, sub) of each leaf, and its url is the url of
\* the last leaf that shares this (main, sub).
C15_OneRowLastUrl ==
    (pc = "exit" /\ catIdx > Len(site.tree)) =>
        \A j \in DOMAIN site.tree :
            LET key == LeafCatKey(site.tree[j])
            IN /\ Cardinality(RowsOf(categories, key)) = 1
               /\ \A i \in RowsOf(categories, key) :
                     categories[i].url =
                         site.tree[LastSharing(site.tree, key)].url

\* C15 as amended: categories never holds two rows for one (main, sub); on a
\* store that held no row for it, the row's url is the url of the first leaf
\* that shares this (main, sub), the inserts for the later ones being
\* ignored; and when the run has gone through every leaf, each leaf's
\* (main, sub) has its row.
C15_OneRowFirstUrl ==
    /\ \A i, k \in DOMAIN categories :
          i # k => CatKeyOf(categories[i]) # CatKeyOf(categories[k])
    /\ \A i \in DOMAIN categories :
          LET key == CatKeyOf(categories[i])
          IN /\ Sharing(site.tree, key) # {}
             /\ categories[i].url =
                    site.tree[FirstSharing(site.tree, key)].url
    /\ (pc = "exit" /\ catIdx > Len(site.tree)) =>
          \A j \in DOMAIN site.tree :
              RowsOf(categories, LeafCatKey(site.tree[j])) # {}

\* C15 witness: two nested categories with the same (main, sub) and different
\* urls were both crawled, and the one row holds the url of the first.
C15_Witness ==
    /\ pc = "exit"
    /\ site.tree = <<LeafX, LeafY>>
    /\ catIdx = 3
    /\ Len(categories) = 1
    /\ categories[1].url = LeafX.url
    /\ LeafX.url # LeafY.url

\* C16: sanitize_filename returns a text for every text (as long as its
\* argument, every character one the class keeps), and applied to a text it
\* returned it returns that text again.
C16_SanitizeIdempotentTotal ==
    /\ \A k \in DOMAIN result :
          /\ Len(result[k]) = Len(name)
          /\ \A i \in DOMAIN result[k] : Allowed(result[k][i])
    /\ Len(result) = 2 => result[2] = result[1]

\* C16 witness: a text with two characters outside the class was sanitized,
\* and sanitizing the result gave the result again.
C16_Witness ==
    /\ name = <<"/", "a", ".">>
    /\ result = << <<"_", "a", "_">>, <<"_", "a", "_">> >>

\* C17: a process whose configuration lacks base_url or
\* products_per_subcategory ends at the configuration load: once it has left
\* its start it has crashed, it has issued no network request, it has no
\* browser session, and the tables and the files are what they were when it
\* started (no table dropped, none created).
C17_MissingKeyFatalAtStartup ==
    (config.keys # {"base_url", "products_per_subcategory"} /\ pc # "start") =>
        /\ pc = "crashed"
        /\ ~requested
        /\ ~driverOpen
        /\ Snapshot = prior

\* C17 witness: a run on a store that holds product rows, with a config file
\* that has lost a key, has crashed with the rows still there.
C17_Witness ==
    /\ run >= 2
    /\ pc = "crashed"
    /\ config.keys = {"base_url"}
    /\ products # <<>>
    /\ products = prior.products

\* C18: two products rows with different (main_category, sub_category,
\* nested_category, product_id) never have the same json_path, and a document
\* is never written over the document of another key: the key of the document
\* found at the path of a write is the key being written.
C18_PathsCollisionSafe ==
    [][/\ \A i, j \in DOMAIN View' :
             KeyOf(View'[i]) # KeyOf(View'[j]) =>
                 View'[i].json_path # View'[j].json_path
       /\ (pc = "write" /\ pc' = "insert" /\ HasFile(docs, RecPath)
               /\ FileAt(docs, RecPath) # Truncated) =>
             KeyOf(RowOf(FileAt(docs, RecPath)[1], RecPath)) = RecKey]_vars

\* C19: crawled_count is the size of products_seen; an identity is put in the
\* set and counted, once, in the step that hands it to extraction and was not
\* in the set before; nothing that happens during the extraction, a failure
\* included, takes it out or uncounts it; a card that is skipped or whose
\* attribute or link lookup fails changes neither; a products row is inserted
\* only by the INSERT of an identity that is in the set, and committed no
\* earlier; and the rows inserted for the first category of a run never
\* outnumber crawled_count.
C19_SeenCountedBeforeExtraction ==
    [][/\ crawled_count' = Cardinality(products_seen')
       /\ (pc = "for" /\ pc' = "extract") =>
             (/\ product_id' \notin products_seen
              /\ products_seen' = products_seen \cup {product_id'}
              /\ crawled_count' = crawled_count + 1)
       /\ (pc \in {"extract", "write", "insert"}) =>
             (products_seen' = products_seen /\ crawled_count' = crawled_count)
       /\ (pc = "for" /\ pc' = "for") =>
             (products_seen' = products_seen /\ crawled_count' = crawled_count)
       /\ (Len(View') > Len(View)) =>
             (/\ pc = "insert"
              /\ product_id \in products_seen
              /\ View'[Len(View')].product_id = product_id)
       /\ IsPrefix(products', View')
       /\ (catIdx' = 1 /\ pc' # "categories") =>
             Len(View') <= crawled_count']_vars

\* C19 witness: the extraction of A1 failed; A1 is counted and seen, no row
\* was added, and the card that shows A1 again is about to be skipped.
C19_Witness ==
    /\ pc = "for"
    /\ caught
    /\ crawled_count = 1
    /\ products_seen = {"A1"}
    /\ products = <<>>
    /\ idx = 2
    /\ idx <= Len(product_elements)
    /\ product_elements[idx] = "A1"
    /\ BelowCap(crawled_count)

\* C20: the document of an item is on disk before its row is inserted: the
\* INSERT that adds a products row finds, at the row's json_path, the document
\* that was written for this very item, and every row of the table, committed
\* or still in the open transaction, has a file at its json_path.
C20_DocumentBeforeRow ==
    [][/\ (Len(View') > Len(View)) =>
             (LET row == View'[Len(View')]
              IN /\ HasFile(docs, row.json_path)
                 /\ FileAt(docs, row.json_path) = rec
                 /\ KeyOf(RowOf(FileAt(docs, row.json_path)[1], row.json_path))
                        = KeyOf(row))
       /\ \A i \in DOMAIN View' :
             HasFile(docs', View'[i].json_path)]_vars

\* C20 witness: two rows were inserted, each with the document of its
\* identity at its json_path.
C20_Witness ==
    /\ last_insert = "added"
    /\ Len(products) = 2
    /\ products[1].product_id # products[2].product_id
    /\ \A i \in DOMAIN products :
          /\ HasFile(docs, products[i].json_path)
          /\ FileAt(docs, products[i].json_path) # Truncated
          /\ FileAt(docs, products[i].json_path)[1].product_id
                 = products[i].product_id

====
